---- MODULE Spec2Model ----
(***************************************************************************)
(* Model of the work_platform backend (FastAPI routers over SQLAlchemy     *)
(* crud functions): the project lifecycle, the version ledgers of          *)
(* submissions and proposal files, the issue tracker, the bidding window, *)
(* the ratings and the registration of users.  Tables are sequences of     *)
(* rows; a row's primary key is its index (autoincrement ids).  Each       *)
(* request handler of routers/projects.py and routers/auth.py is one       *)
(* action, served as a whole; SpecConc and SpecRateConc split a handler at *)
(* its database statements to interleave two workers.  The columns no      *)
(* handler reads back (title, description, budget, price, created_at,      *)
(* updated_at) are left out of the rows.                                   *)
(***************************************************************************)
EXTENDS Integers, Sequences, FiniteSets

\* ---------------------------------------------------------------- bounds
MaxTime == 2
MaxVersions == 2
MaxIssues == 2
MaxProposals == 2
\* SpecLedger, SpecConc: the rows of the submission ledger.
MaxLedger == 3
MaxRatings == 3
MaxUsers == 3
\* SpecReview: the rows of the ratings table.
MaxReviews == 2

\* ------------------------------------------------------------- constants
\* A nullable integer column (ids start at 1, the clock starts at 1).
NULL == 0
\* A nullable text column holding SQL NULL.
NONE == "none"

\* models.ProjectStatus
DRAFT == "draft"
OPEN == "open"
IN_PROGRESS == "in_progress"
SUBMITTED == "submitted"
COMPLETED == "completed"
REJECTED == "rejected"
ProjectStatus == {DRAFT, OPEN, IN_PROGRESS, SUBMITTED, COMPLETED, REJECTED}

\* models.IssueStatus
ISSUE_OPEN == "issue_open"
ISSUE_RESOLVED == "issue_resolved"

\* ---------------------------------------------------------------- inputs
\* The project ids requests name; a project is created while its id is one.
ProjectIds == {1}
\* SpecLedger: two projects, each the parent of its own versions.
ParentIds == {1, 2}
IssueIds == 1..MaxIssues
ClientIds == {1}
ContractorIds == {2, 3}
ResolverIds == {1, 2}
\* A deadline is absent or falls on the last instant of the clock.
Deadlines == {NULL, MaxTime}
\* The server's local clock runs TzOffset ahead of UTC.
TzOffsets == {0, 1}
Reasons == {"incomplete"}
\* UploadFile of the submit request: absent, or a named file.
Files == {NONE, "fileA"}
\* Form field submission_file_url: absent, empty, or a link.
FormUrls == {NONE, "", "urlB"}
\* The same without a link: the request carries a file or nothing.
NoLink == {NONE, ""}
\* Attachment of a proposal: absent, a PDF, or another media type.
ContentTypes == {NONE, "application/pdf", "image/png"}
\* rater_id and rated_user_id of a RatingCreate body: the client, the two
\* contractors; one of the contractors is a third party of the project.
RaterIds == ClientIds \cup ContractorIds
\* The dimensions of a rating (1.0 to 5.0): cooperation_attitude is
\* required; output_quality stands for the four nullable dimensions.
Scores == {4, 5}
OptionalScores == {NULL, 5}
\* SpecReview: the raters are the client and the contractor selected.
PartyIds == {1, 2}
\* A RatingCreate body without its user ids.
RatingBodies ==
    {[cooperation_attitude |-> c, output_quality |-> q] :
        c \in Scores, q \in OptionalScores}
\* The body that sets the required dimension only, to full marks.
PlainBodies ==
    {b \in RatingBodies :
        b.cooperation_attitude = 5 /\ b.output_quality = NULL}
\* The fields of a UserCreate body.
Usernames == {"ann", "bob", "cat"}
Emails == {"ann@x.org", "bob@x.org", "cat@x.org"}
Passwords == {"pw1", "pw2"}
UserRoles == {"client", "contractor"}
\* The salt passlib draws for a new hash.
Salts == {1}

VARIABLES
    projects,             \* table projects
    issues,               \* table issues
    submission_versions,  \* table submission_versions
    proposals,            \* table proposals
    proposal_files,       \* table proposal_files
    now,                  \* datetime.utcnow()
    ratings,              \* table ratings
    users,                \* table users
    was_rejected,         \* history: ids of the projects that were REJECTED
    tzOffset,             \* datetime.now() - datetime.utcnow()
    last,                 \* the last request served and its HTTP status
    reqs,                 \* submit requests in flight (SpecConc)
    rate_reqs,            \* rate requests in flight (SpecRateConc)
    life_reqs,            \* accept and issue requests in flight (SpecLifeConc)
    static_submissions    \* the files written under static/submissions

tables == <<projects, issues, submission_versions, proposals, proposal_files,
            ratings, users, was_rejected>>
clock == <<now, tzOffset>>
vars == <<projects, issues, submission_versions, proposals, proposal_files,
          ratings, users, was_rejected, now, tzOffset, last, reqs, rate_reqs,
          life_reqs, static_submissions>>

\* ------------------------------------------------------------ responses
\* The request served (handler, path id, the users named in it) and the
\* HTTP status of its response.
Reply(op, id, args, code) == [op |-> op, id |-> id, args |-> args, code |-> code]

Response(op, id, code) == Reply(op, id, <<>>, code)
NoRequest == Response("none", NULL, NULL)

\* -------------------------------------------------------------- queries
ProjectExists(project_id) == project_id \in DOMAIN projects

IssueExists(issue_id) == issue_id \in DOMAIN issues

Max(S) == CHOOSE m \in S : \A x \in S : x <= m

utcnow == now

localnow == now + tzOffset

\* SELECT count(*) FROM issues WHERE project_id = :id AND status = 'open'
has_open_issues_resolved(project_id) ==
    Cardinality({i \in DOMAIN issues :
                    /\ issues[i].project_id = project_id
                    /\ issues[i].status = ISSUE_RESOLVED}) > 0

has_open_issues(project_id) ==
    Cardinality({i \in DOMAIN issues :
                    /\ issues[i].project_id = project_id
                    /\ issues[i].status = ISSUE_OPEN}) > 0

\* The version of the row ORDER BY version DESC LIMIT 1, NULL without a row.
LastVersion(rows, key, parent) ==
    LET vs == {rows[i].version : i \in {j \in DOMAIN rows : rows[j][key] = parent}}
    IN IF vs = {} THEN NULL ELSE Max(vs)

next_version_repeat(lastv) == IF lastv = NULL THEN 1 ELSE lastv

next_version(lastv) == IF lastv = NULL THEN 1 ELSE lastv + 1

\* ------------------------------------------------------------ crud: users
\* pwd_context.hash: the scheme, a fresh salt, the digest of salt and password.
get_password_hash(password, salt) == <<"pbkdf2_sha256", salt, password>>

\* SELECT ... WHERE username = :username, first(): the id of the row, or NULL.
get_user_by_username_none(username) == NULL

get_user_by_username(username) ==
    LET found == {i \in DOMAIN users : users[i].username = username}
    IN IF found = {} THEN NULL
       ELSE CHOOSE i \in found : \A j \in found : i <= j

\* The unique indexes on users.username and users.email: the INSERT of a
\* row that repeats either value raises IntegrityError.
violates_unique(username, email) ==
    \E i \in DOMAIN users :
       users[i].username = username \/ users[i].email = email

create_user(username, email, password, role, salt) ==
    Append(users,
           [username |-> username, email |-> email,
            hashed_password |-> get_password_hash(password, salt),
            role |-> role])

\* pwd_context.verify: hash the plain password with the salt of the stored
\* hash and compare.
verify_password(plain_password, hashed_password) ==
    hashed_password = get_password_hash(plain_password, hashed_password[2])

\* The id of the user, NULL when the username is unknown or the password
\* does not verify.
authenticate_user(username, password) ==
    LET user == get_user_by_username(username)
    IN IF user = NULL THEN NULL
       ELSE IF ~verify_password(password, users[user].hashed_password) THEN NULL
       ELSE user

\* routers/auth.py login: what the caller receives.
login_response_unknown_404(username, password) ==
    IF get_user_by_username(username) = NULL
    THEN [code |-> 404, detail |-> "no such account", user |-> NULL]
    ELSE IF authenticate_user(username, password) = NULL
    THEN [code |-> 401, detail |-> "wrong username or password", user |-> NULL]
    ELSE [code |-> 200, detail |-> "bearer",
          user |-> authenticate_user(username, password)]

login_response(username, password) ==
    LET user == authenticate_user(username, password)
    IN IF user = NULL
       THEN [code |-> 401, detail |-> "wrong username or password",
             user |-> NULL]
       ELSE [code |-> 200, detail |-> "bearer", user |-> user]

\* --------------------------------------------------------- crud: projects
new_project_column_default(client_id, deadline) ==
    [status |-> DRAFT, client_id |-> client_id, contractor_id |-> NULL,
     completed_at |-> NULL, submission_file_url |-> NONE,
     rejection_reason |-> NONE, deadline |-> deadline]

new_project(client_id, deadline) ==
    [status |-> OPEN, client_id |-> client_id, contractor_id |-> NULL,
     completed_at |-> NULL, submission_file_url |-> NONE,
     rejection_reason |-> NONE, deadline |-> deadline]

create_project(client_id, deadline) ==
    Append(projects, new_project(client_id, deadline))

\* A ProjectUpdate body: the fields the client set, and their values.
PatchFields == {"status", "deadline"}
Patches ==
    {[fields |-> F, status |-> s, deadline |-> d] :
        F \in SUBSET PatchFields, s \in ProjectStatus, d \in Deadlines}

\* An unset field carries a fixed placeholder, so a body is listed once.
CanonicalPatch(patch) ==
    /\ ("status" \notin patch.fields => patch.status = DRAFT)
    /\ ("deadline" \notin patch.fields => patch.deadline = NULL)

AllPatches == {patch \in Patches : CanonicalPatch(patch)}

\* The bodies that set the status and nothing else.
StatusPatches == {patch \in AllPatches : patch.fields = {"status"}}

update_project_stamps_completion(project_id, patch) ==
    [projects EXCEPT
        ![project_id].status =
            IF "status" \in patch.fields THEN patch.status ELSE @,
        ![project_id].deadline =
            IF "deadline" \in patch.fields THEN patch.deadline ELSE @,
        ![project_id].completed_at =
            IF "status" \in patch.fields /\ patch.status = COMPLETED
            THEN now ELSE @]

update_project_replace(project_id, patch) ==
    [projects EXCEPT
        ![project_id].status =
            IF "status" \in patch.fields THEN patch.status ELSE @,
        ![project_id].deadline =
            IF "deadline" \in patch.fields THEN patch.deadline ELSE NULL]

update_project(project_id, patch) ==
    [projects EXCEPT
        ![project_id].status =
            IF "status" \in patch.fields THEN patch.status ELSE @,
        ![project_id].deadline =
            IF "deadline" \in patch.fields THEN patch.deadline ELSE @]

select_contractor(project_id, contractor_id) ==
    [projects EXCEPT ![project_id].contractor_id = contractor_id,
                     ![project_id].status = IN_PROGRESS]

accept_project_no_stamp(project_id) ==
    [projects EXCEPT ![project_id].status = COMPLETED]

accept_project(project_id) ==
    [projects EXCEPT ![project_id].status = COMPLETED,
                     ![project_id].completed_at = utcnow]

reject_project_status_only(project_id, reason) ==
    [projects EXCEPT ![project_id].status = REJECTED]

reject_project(project_id, reason) ==
    [projects EXCEPT ![project_id].status = REJECTED,
                     ![project_id].rejection_reason = reason]

\* ----------------------------------------------------- crud: the ledgers
add_submission_version_overwrite(project_id, lastv, submit_url) ==
    IF lastv = NULL
    THEN Append(submission_versions,
                [project_id |-> project_id, version |-> 1,
                 submit_url |-> submit_url])
    ELSE [i \in DOMAIN submission_versions |->
            IF /\ submission_versions[i].project_id = project_id
               /\ submission_versions[i].version = lastv
            THEN [project_id |-> project_id, version |-> lastv + 1,
                  submit_url |-> submit_url]
            ELSE submission_versions[i]]

add_submission_version_dropped(project_id, lastv, submit_url) ==
    submission_versions

add_submission_version(project_id, lastv, submit_url) ==
    Append(submission_versions,
           [project_id |-> project_id, version |-> next_version(lastv),
            submit_url |-> submit_url])

\* submit_project sets the status and appends the version in one commit.
submit_project_status(project_id) ==
    [projects EXCEPT ![project_id].status = SUBMITTED]

add_proposal_file(proposal_id, original_filename) ==
    Append(proposal_files,
           [proposal_id |-> proposal_id,
            version |-> next_version(
                LastVersion(proposal_files, "proposal_id", proposal_id)),
            original_filename |-> original_filename])

crud_create_proposal(project_id, contractor_id) ==
    Append(proposals,
           [project_id |-> project_id, contractor_id |-> contractor_id])

\* ---------------------------------------------------------- crud: issues
crud_create_issue(project_id, creator_id) ==
    Append(issues,
           [project_id |-> project_id, status |-> ISSUE_OPEN,
            created_by_id |-> creator_id, resolved_at |-> NULL])

crud_resolve_issue_stamp_only(issue_id) ==
    [issues EXCEPT ![issue_id].resolved_at = utcnow]

crud_resolve_issue(issue_id) ==
    [issues EXCEPT ![issue_id].status = ISSUE_RESOLVED,
                   ![issue_id].resolved_at = utcnow]

\* --------------------------------------------------------- crud: ratings
\* SELECT ... WHERE project_id, rater_id, rated_user_id match, first()
has_user_rated_project_other_direction(project_id, rater_id, rated_user_id) ==
    \E i \in DOMAIN ratings :
       /\ ratings[i].project_id = project_id
       /\ ratings[i].rater_id = rated_user_id
       /\ ratings[i].rated_user_id = rater_id

has_user_rated_project(project_id, rater_id, rated_user_id) ==
    \E i \in DOMAIN ratings :
       /\ ratings[i].project_id = project_id
       /\ ratings[i].rater_id = rater_id
       /\ ratings[i].rated_user_id = rated_user_id

create_rating(project_id, rater_id, rated_user_id, rating) ==
    Append(ratings,
           [project_id |-> project_id, rater_id |-> rater_id,
            rated_user_id |-> rated_user_id,
            cooperation_attitude |-> rating.cooperation_attitude,
            output_quality |-> rating.output_quality])

\* SELECT ... WHERE project_id, rater_id match, first(): the id of the row
\* with the lowest id, or NULL.
get_rating_by_ids(project_id, rater_id) ==
    LET found == {i \in DOMAIN ratings :
                     /\ ratings[i].project_id = project_id
                     /\ ratings[i].rater_id = rater_id}
    IN IF found = {} THEN NULL
       ELSE CHOOSE i \in found : \A j \in found : i <= j

\* rating_update.dict(exclude_unset=True) without the two user ids, setattr
\* for each key: the required dimension always, a nullable one when given.
update_rating(project_id, rater_id, rating_update) ==
    LET db_rating == get_rating_by_ids(project_id, rater_id)
    IN [ratings EXCEPT
          ![db_rating].cooperation_attitude = rating_update.cooperation_attitude,
          ![db_rating].output_quality =
              IF rating_update.output_quality # NULL
              THEN rating_update.output_quality ELSE @]

\* Scores are kept as integers and means as multiples of 1/Scale, Scale
\* being a common multiple of the possible numbers of valid scores (1, 2).
Scale == 2

RECURSIVE SeqSum(_)
SeqSum(scores) ==
    IF scores = <<>> THEN 0 ELSE Head(scores) + SeqSum(Tail(scores))

\* [s for s in scores if s is not None]
valid_scores(r) ==
    LET NotNone(x) == x # NULL
    IN SelectSeq(<<r.cooperation_attitude, r.output_quality>>, NotNone)

\* round(num / den, 1) in tenths: the nearest tenth, a tie to the even one.
RoundTenths(num, den) ==
    LET q == (10 * num) \div den
        r == (10 * num) % den
    IN IF 2 * r < den THEN q
       ELSE IF 2 * r > den THEN q + 1
       ELSE IF q % 2 = 0 THEN q ELSE q + 1

\* The loop of get_average_rating: total_score_sum (times Scale) and
\* total_items_count over the ratings received.
RECURSIVE AverageLoop(_)
AverageLoop(rows) ==
    IF rows = <<>> THEN [sum |-> 0, count |-> 0]
    ELSE LET rest == AverageLoop(Tail(rows))
             valid == valid_scores(Head(rows))
         IN IF Len(valid) > 0
            THEN [sum |-> rest.sum + (Scale * SeqSum(valid)) \div Len(valid),
                  count |-> rest.count + 1]
            ELSE rest

\* The same loop over the raw scores of all ratings.
RECURSIVE FlatLoop(_)
FlatLoop(rows) ==
    IF rows = <<>> THEN [sum |-> 0, count |-> 0]
    ELSE LET rest == FlatLoop(Tail(rows))
             valid == valid_scores(Head(rows))
         IN [sum |-> rest.sum + SeqSum(valid), count |-> rest.count + Len(valid)]

\* average_score is in tenths.
get_average_rating_flattened(user_id) ==
    LET Received(r) == r.rated_user_id = user_id
        received == SelectSeq(ratings, Received)
        acc == FlatLoop(received)
    IN IF Len(received) = 0
       THEN [average_score |-> 0, total_ratings |-> 0]
       ELSE [average_score |-> RoundTenths(acc.sum, acc.count),
             total_ratings |-> Len(received)]

get_average_rating(user_id) ==
    LET Received(r) == r.rated_user_id = user_id
        received == SelectSeq(ratings, Received)
        acc == AverageLoop(received)
    IN IF Len(received) = 0
       THEN [average_score |-> 0, total_ratings |-> 0]
       ELSE [average_score |->
                IF acc.count > 0
                THEN RoundTenths(acc.sum, Scale * acc.count) ELSE 0,
             total_ratings |-> Len(received)]

\* routers/projects.py rate_user: the HTTP status the checks of the handler
\* lead to, in their order; 200 when all pass.
rate_user_status(project_id, rater_id, rated_user_id) ==
    IF ~ProjectExists(project_id) THEN 404
    ELSE LET project == projects[project_id]
             parties == {project.client_id, project.contractor_id}
         IN IF project.status # COMPLETED THEN 403
            ELSE IF rater_id \notin parties THEN 403
            ELSE IF rated_user_id \notin parties \/ rated_user_id = rater_id
            THEN 400
            ELSE IF has_user_rated_project(project_id, rater_id, rated_user_id)
            THEN 409
            ELSE 200

\* crud.create_issue returns None unless the project exists and is SUBMITTED.
may_create_issue_any_status(project_id) == ProjectExists(project_id)

may_create_issue(project_id) ==
    /\ ProjectExists(project_id)
    /\ projects[project_id].status = SUBMITTED

\* crud.resolve_issue returns None unless the issue exists and the resolver
\* is the client of its project.
may_resolve_issue_anyone(issue_id, resolver_id) == IssueExists(issue_id)

may_resolve_issue(issue_id, resolver_id) ==
    /\ IssueExists(issue_id)
    /\ projects[issues[issue_id].project_id].client_id = resolver_id

\* ------------------------------------------------------ bidding window
is_project_open_for_bidding_any_status(project) ==
    IF project.deadline = NULL THEN TRUE
    ELSE project.deadline > localnow

is_project_open_for_bidding(project) ==
    IF project.status # OPEN THEN FALSE
    ELSE IF project.deadline = NULL THEN TRUE
    ELSE project.deadline > localnow

\* ------------------------------------------------------- submit guards
submit_allowed_any(status) == TRUE

\* routers/projects.py: status in (IN_PROGRESS, REJECTED)
submit_allowed(status) == status \in {IN_PROGRESS, REJECTED}

\* The locator the submit handler stores: the uploaded file's path, else
\* the link of the form field, else nothing (the request is refused).
StoredPath(file) == "/static/submissions/fileA"

\* routers/projects.py 141-143: the bytes of an uploaded file are written
\* under static/submissions; a request without a file writes nothing.
save_upload(file) ==
    IF file # NONE THEN static_submissions \cup {StoredPath(file)}
    ELSE static_submissions

final_url(file, url) ==
    IF file # NONE THEN StoredPath(file)
    ELSE IF url # NONE /\ url # "" THEN url
    ELSE NONE

\* ------------------------------------------------- requests in flight
\* Server workers, each with its own database session.
Workers == {1, 2}

Idle == [pc |-> "idle", project_id |-> NULL, url |-> NONE, lastv |-> NULL]

RateIdle == [pc |-> "idle", project_id |-> NULL, rater_id |-> NULL,
             rated_user_id |-> NULL, rating |-> NULL]

\* The history variable follows the status column: after a request, every
\* project whose status is REJECTED has been REJECTED.
LifeIdle == [pc |-> "idle", project_id |-> NULL, user_id |-> NULL]

RecordHistory ==
    was_rejected' = was_rejected \cup
        {p \in DOMAIN projects' : projects'[p].status = REJECTED}

\* ================================================================= Init
\* Base.metadata.create_all: empty tables, no request served.
InitTables ==
    /\ projects = <<>>
    /\ issues = <<>>
    /\ submission_versions = <<>>
    /\ proposals = <<>>
    /\ proposal_files = <<>>
    /\ ratings = <<>>
    /\ users = <<>>
    /\ was_rejected = {}
    /\ now = 1
    /\ last = NoRequest
    /\ reqs = [w \in Workers |-> Idle]
    /\ rate_reqs = [w \in Workers |-> RateIdle]
    /\ life_reqs = [w \in Workers |-> LifeIdle]
    /\ static_submissions = {}

\* A server whose local time is UTC.
Init == InitTables /\ tzOffset = 0

\* A server in any of the time zones.
InitBid == InitTables /\ tzOffset \in TzOffsets

\* --------------------------------------------------- crud: open listing
\* The query parameters of GET /projects/ when the request names none.
DefaultSkip == 0
DefaultLimit == 100

\* The ids of the projects, newest first (ORDER BY created_at DESC).
NewestFirst == [k \in 1..Len(projects) |-> Len(projects) + 1 - k]

\* crud.py 67: the filter of the listing, on datetime.utcnow().
is_listed(project) ==
    /\ project.status = OPEN
    /\ \/ project.deadline = NULL
       \/ project.deadline > utcnow

\* crud.py 62-80: the page [skip, skip + limit) of the OPEN projects whose
\* deadline is unset or later than utcnow, newest first.
get_projects(skip, limit) ==
    LET Open(p) == is_listed(projects[p])
        rows == SelectSeq(NewestFirst, Open)
        upto == IF skip + limit < Len(rows) THEN skip + limit ELSE Len(rows)
    IN SubSeq(rows, skip + 1, upto)

\* ============================================================== handlers
\* GET /projects/
route_get_all_projects(skip, limit) ==
    /\ last' = Reply("get_all_projects", NULL, <<get_projects(skip, limit)>>, 200)
    /\ UNCHANGED <<tables, clock, reqs, rate_reqs, life_reqs,
                   static_submissions>>

\* POST /projects/
route_create_project(client_id, deadline) ==
    /\ projects' = create_project(client_id, deadline)
    /\ last' = Response("create_project", Len(projects) + 1, 200)
    /\ RecordHistory
    /\ UNCHANGED <<issues, submission_versions, proposals, proposal_files,
                   ratings, users,
                   clock, reqs, rate_reqs, life_reqs, static_submissions>>

\* PUT /projects/{project_id}
route_update_project(project_id, patch) ==
    /\ IF ProjectExists(project_id)
       THEN /\ projects' = update_project(project_id, patch)
            /\ last' = Reply("update_project", project_id, <<patch>>, 200)
       ELSE /\ last' = Reply("update_project", project_id, <<patch>>, 404)
            /\ UNCHANGED projects
    /\ RecordHistory
    /\ UNCHANGED <<issues, submission_versions, proposals, proposal_files,
                   ratings, users,
                   clock, reqs, rate_reqs, life_reqs, static_submissions>>

\* POST /projects/{project_id}/select-contractor
route_select_contractor(project_id, contractor_id) ==
    /\ IF ProjectExists(project_id)
       THEN /\ projects' = select_contractor(project_id, contractor_id)
            /\ last' = Response("select_contractor", project_id, 200)
       ELSE /\ last' = Response("select_contractor", project_id, 404)
            /\ UNCHANGED projects
    /\ RecordHistory
    /\ UNCHANGED <<issues, submission_versions, proposals, proposal_files,
                   ratings, users,
                   clock, reqs, rate_reqs, life_reqs, static_submissions>>

\* POST /projects/{project_id}/submit
route_submit_project(project_id, file, url) ==
    /\ IF ~ProjectExists(project_id)
       THEN /\ last' = Response("submit_project", project_id, 404)
            /\ UNCHANGED <<projects, submission_versions, static_submissions>>
       ELSE IF ~submit_allowed(projects[project_id].status)
       THEN /\ last' = Response("submit_project", project_id, 400)
            /\ UNCHANGED <<projects, submission_versions, static_submissions>>
       ELSE IF final_url(file, url) = NONE
       THEN /\ last' = Response("submit_project", project_id, 400)
            /\ UNCHANGED <<projects, submission_versions, static_submissions>>
       ELSE /\ static_submissions' = save_upload(file)
            /\ projects' = submit_project_status(project_id)
            /\ submission_versions' =
                   add_submission_version(
                       project_id,
                       LastVersion(submission_versions, "project_id", project_id),
                       final_url(file, url))
            /\ last' = Response("submit_project", project_id, 200)
    /\ RecordHistory
    /\ UNCHANGED <<issues, proposals, proposal_files, ratings, users,
                   clock, reqs, rate_reqs, life_reqs>>

\* POST /projects/{project_id}/accept
route_accept_project(project_id) ==
    /\ IF has_open_issues(project_id)
       THEN /\ last' = Response("accept_project", project_id, 400)
            /\ UNCHANGED projects
       ELSE IF ~ProjectExists(project_id)
       THEN /\ last' = Response("accept_project", project_id, 404)
            /\ UNCHANGED projects
       ELSE /\ projects' = accept_project(project_id)
            /\ last' = Response("accept_project", project_id, 200)
    /\ RecordHistory
    /\ UNCHANGED <<issues, submission_versions, proposals, proposal_files,
                   ratings, users,
                   clock, reqs, rate_reqs, life_reqs, static_submissions>>

\* POST /projects/{project_id}/reject
route_reject_project(project_id, reason) ==
    /\ IF ProjectExists(project_id)
       THEN /\ projects' = reject_project(project_id, reason)
            /\ last' = Response("reject_project", project_id, 200)
       ELSE /\ last' = Response("reject_project", project_id, 404)
            /\ UNCHANGED projects
    /\ RecordHistory
    /\ UNCHANGED <<issues, submission_versions, proposals, proposal_files,
                   ratings, users,
                   clock, reqs, rate_reqs, life_reqs, static_submissions>>

\* POST /projects/{project_id}/proposals
route_create_proposal(project_id, contractor_id, content_type) ==
    /\ IF ~ProjectExists(project_id)
       THEN /\ last' = Response("create_proposal", project_id, 404)
            /\ UNCHANGED <<proposals, proposal_files>>
       ELSE IF ~is_project_open_for_bidding(projects[project_id])
       THEN /\ last' = Response("create_proposal", project_id, 400)
            /\ UNCHANGED <<proposals, proposal_files>>
       ELSE /\ proposals' = crud_create_proposal(project_id, contractor_id)
            /\ IF content_type = NONE
               THEN /\ last' = Response("create_proposal", project_id, 200)
                    /\ UNCHANGED proposal_files
               ELSE IF content_type # "application/pdf"
               THEN /\ last' = Response("create_proposal", project_id, 400)
                    /\ UNCHANGED proposal_files
               ELSE /\ proposal_files' =
                           add_proposal_file(Len(proposals) + 1, "fileA")
                    /\ last' = Response("create_proposal", project_id, 200)
    /\ UNCHANGED <<projects, issues, submission_versions, ratings, users,
                   was_rejected, clock, reqs, rate_reqs, life_reqs,
                   static_submissions>>

\* POST /projects/{project_id}/issues
route_create_issue(project_id, creator_id) ==
    /\ IF may_create_issue(project_id)
       THEN /\ issues' = crud_create_issue(project_id, creator_id)
            /\ last' = Response("create_issue", project_id, 200)
       ELSE /\ last' = Response("create_issue", project_id, 400)
            /\ UNCHANGED issues
    /\ UNCHANGED <<projects, submission_versions, proposals, proposal_files,
                   ratings, users,
                   was_rejected, clock, reqs, rate_reqs, life_reqs,
                   static_submissions>>

\* POST /projects/{project_id}/issues/{issue_id}/resolve
route_resolve_issue(issue_id, resolver_id) ==
    /\ IF may_resolve_issue(issue_id, resolver_id)
       THEN /\ issues' = crud_resolve_issue(issue_id)
            /\ last' = Reply("resolve_issue", issue_id, <<resolver_id>>, 200)
       ELSE /\ last' = Reply("resolve_issue", issue_id, <<resolver_id>>, 400)
            /\ UNCHANGED issues
    /\ UNCHANGED <<projects, submission_versions, proposals, proposal_files,
                   ratings, users,
                   was_rejected, clock, reqs, rate_reqs, life_reqs,
                   static_submissions>>

\* POST /auth/register.  An IntegrityError of the commit is not caught: the
\* response is 500 and no row is written.
route_register(username, email, password, role, salt) ==
    /\ IF get_user_by_username(username) # NULL
       THEN /\ last' = Reply("register", NULL, <<username>>, 400)
            /\ UNCHANGED users
       ELSE IF violates_unique(username, email)
       THEN /\ last' = Reply("register", NULL, <<username>>, 500)
            /\ UNCHANGED users
       ELSE /\ users' = create_user(username, email, password, role, salt)
            /\ last' = Reply("register", Len(users) + 1, <<username>>, 200)
    /\ UNCHANGED <<projects, issues, submission_versions, proposals,
                   proposal_files, ratings, was_rejected, clock, reqs,
                   rate_reqs, life_reqs, static_submissions>>

\* POST /auth/login
route_login(username, password) ==
    /\ last' = Reply("login", login_response(username, password).user,
                     <<username>>, login_response(username, password).code)
    /\ UNCHANGED <<tables, clock, reqs, rate_reqs, life_reqs,
                   static_submissions>>

\* POST /projects/{project_id}/rate
route_rate_user(project_id, rater_id, rated_user_id, rating) ==
    /\ LET code == rate_user_status(project_id, rater_id, rated_user_id)
       IN /\ last' = Reply("rate_user", project_id,
                           <<rater_id, rated_user_id>>, code)
          /\ IF code = 200
             THEN ratings' = create_rating(project_id, rater_id,
                                           rated_user_id, rating)
             ELSE UNCHANGED ratings
    /\ UNCHANGED <<projects, issues, submission_versions, proposals,
                   proposal_files, users, was_rejected, clock, reqs, rate_reqs,
                   life_reqs, static_submissions>>

\* PUT /projects/{project_id}/rate
route_update_existing_rating(project_id, rater_id, rated_user_id, rating_update) ==
    /\ IF get_rating_by_ids(project_id, rater_id) = NULL
       THEN /\ last' = Reply("update_rating", project_id,
                             <<rater_id, rated_user_id>>, 404)
            /\ UNCHANGED ratings
       ELSE /\ ratings' = update_rating(project_id, rater_id, rating_update)
            /\ last' = Reply("update_rating", project_id,
                             <<rater_id, rated_user_id>>, 200)
    /\ UNCHANGED <<projects, issues, submission_versions, proposals,
                   proposal_files, users, was_rejected, clock, reqs, rate_reqs,
                   life_reqs, static_submissions>>

\* GET /projects/user/{user_id}/average-rating; the response carries the
\* average (in tenths) and the number of ratings.
route_get_user_average_rating(user_id) ==
    /\ last' = Reply("average_rating", user_id,
                     <<get_average_rating(user_id).average_score,
                       get_average_rating(user_id).total_ratings>>, 200)
    /\ UNCHANGED <<tables, clock, reqs, rate_reqs, life_reqs,
                   static_submissions>>

\* Time passes between requests; the response of the last one is gone.
Tick ==
    /\ now < MaxTime
    /\ now' = now + 1
    /\ last' = NoRequest
    /\ UNCHANGED <<tables, tzOffset, reqs, rate_reqs, life_reqs,
                   static_submissions>>

\* ------------------------------------------ the submit handler, in steps
\* routers/projects.py 119-153: load the project, check its status, pick the
\* locator.  The handler then awaits the upload and writes the file.
submit_begin(w, project_id, file, url) ==
    /\ reqs[w].pc = "idle"
    /\ IF ~ProjectExists(project_id)
       THEN /\ last' = Response("submit_project", project_id, 404)
            /\ UNCHANGED <<reqs, static_submissions>>
       ELSE IF ~submit_allowed(projects[project_id].status)
       THEN /\ last' = Response("submit_project", project_id, 400)
            /\ UNCHANGED <<reqs, static_submissions>>
       ELSE IF final_url(file, url) = NONE
       THEN /\ last' = Response("submit_project", project_id, 400)
            /\ UNCHANGED <<reqs, static_submissions>>
       ELSE /\ static_submissions' = save_upload(file)
            /\ reqs' = [reqs EXCEPT ![w] =
                           [pc |-> "checked", project_id |-> project_id,
                            url |-> final_url(file, url), lastv |-> NULL]]
            /\ UNCHANGED last
    /\ UNCHANGED <<tables, clock, rate_reqs, life_reqs>>

\* crud.py 115-120 and 259-265: the session marks the project SUBMITTED
\* (not yet flushed) and reads the last version of the project.
submit_read(w) ==
    /\ reqs[w].pc = "checked"
    /\ reqs' = [reqs EXCEPT
                  ![w].pc = "read",
                  ![w].lastv = LastVersion(submission_versions, "project_id",
                                           reqs[w].project_id)]
    /\ UNCHANGED <<tables, clock, last, rate_reqs, life_reqs,
                   static_submissions>>

\* crud.py 267-273: the commit writes the status and inserts the version row
\* numbered from the version read before.
submit_commit(w) ==
    /\ reqs[w].pc = "read"
    /\ projects' = submit_project_status(reqs[w].project_id)
    /\ submission_versions' =
           add_submission_version(reqs[w].project_id, reqs[w].lastv, reqs[w].url)
    /\ last' = Response("submit_project", reqs[w].project_id, 200)
    /\ reqs' = [reqs EXCEPT ![w] = Idle]
    /\ RecordHistory
    /\ UNCHANGED <<issues, proposals, proposal_files, ratings, users,
                   clock, rate_reqs, life_reqs, static_submissions>>

InFlight == Cardinality({w \in Workers : reqs[w].pc # "idle"})

\* routers/projects.py 141-143: the checks have passed and writing the
\* uploaded file raises (no directory, disk full).  The exception ends the
\* request before crud.submit_project is called.
submit_write_error(project_id, file) ==
    /\ ProjectExists(project_id)
    /\ submit_allowed(projects[project_id].status)
    /\ file # NONE
    /\ last' = Response("submit_project", project_id, 500)
    /\ UNCHANGED <<tables, clock, reqs, rate_reqs, life_reqs,
                   static_submissions>>

\* crud.py 115-126 and 257-273: the request ends (an exception, a lost
\* connection, a failed commit) after the checks and before its commit has
\* succeeded.  get_db closes the session, which rolls back what it holds.
submit_abort(w) ==
    /\ reqs[w].pc \in {"checked", "read"}
    /\ last' = Response("submit_project", reqs[w].project_id, 500)
    /\ reqs' = [reqs EXCEPT ![w] = Idle]
    /\ UNCHANGED <<tables, clock, rate_reqs, life_reqs, static_submissions>>

\* -------------------------------------------- the rate handler, in steps
\* routers/projects.py 358-372: the handler runs in a worker thread with a
\* session of its own; it loads the project and makes its checks, the last
\* of them the SELECT of has_user_rated_project.
rate_begin(w, project_id, rater_id, rated_user_id, rating) ==
    /\ rate_reqs[w].pc = "idle"
    /\ LET code == rate_user_status(project_id, rater_id, rated_user_id)
       IN IF code # 200
          THEN /\ last' = Reply("rate_user", project_id,
                                <<rater_id, rated_user_id>>, code)
               /\ UNCHANGED rate_reqs
          ELSE /\ rate_reqs' = [rate_reqs EXCEPT ![w] =
                                   [pc |-> "checked", project_id |-> project_id,
                                    rater_id |-> rater_id,
                                    rated_user_id |-> rated_user_id,
                                    rating |-> rating]]
               /\ UNCHANGED last
    /\ UNCHANGED <<tables, clock, reqs, life_reqs, static_submissions>>

\* crud.py 380-396: create_rating inserts the row and commits.
rate_commit(w) ==
    /\ rate_reqs[w].pc = "checked"
    /\ ratings' = create_rating(rate_reqs[w].project_id, rate_reqs[w].rater_id,
                                rate_reqs[w].rated_user_id, rate_reqs[w].rating)
    /\ last' = Reply("rate_user", rate_reqs[w].project_id,
                     <<rate_reqs[w].rater_id, rate_reqs[w].rated_user_id>>, 200)
    /\ rate_reqs' = [rate_reqs EXCEPT ![w] = RateIdle]
    /\ UNCHANGED <<projects, issues, submission_versions, proposals,
                   proposal_files, users, was_rejected, clock, reqs, life_reqs,
                   static_submissions>>

RatesInFlight == Cardinality({w \in Workers : rate_reqs[w].pc # "idle"})

\* ------------------------------ the accept and issue handlers, in steps
\* routers/projects.py 163-165: accept counts the OPEN issues of the project
\* in its own session and refuses when there is one.
accept_begin(w, project_id) ==
    /\ life_reqs[w].pc = "idle"
    /\ IF has_open_issues(project_id)
       THEN /\ last' = Response("accept_project", project_id, 400)
            /\ UNCHANGED life_reqs
       ELSE /\ life_reqs' = [life_reqs EXCEPT ![w] =
                                [pc |-> "accept_checked",
                                 project_id |-> project_id, user_id |-> NULL]]
            /\ UNCHANGED last
    /\ UNCHANGED <<tables, clock, reqs, rate_reqs, static_submissions>>

\* routers/projects.py 167-170 and crud.py 129-137: accept_project loads the
\* project, writes COMPLETED and the completion time and commits.
accept_commit(w) ==
    /\ life_reqs[w].pc = "accept_checked"
    /\ IF ProjectExists(life_reqs[w].project_id)
       THEN /\ projects' = accept_project(life_reqs[w].project_id)
            /\ last' = Response("accept_project", life_reqs[w].project_id, 200)
       ELSE /\ last' = Response("accept_project", life_reqs[w].project_id, 404)
            /\ UNCHANGED projects
    /\ life_reqs' = [life_reqs EXCEPT ![w] = LifeIdle]
    /\ RecordHistory
    /\ UNCHANGED <<issues, submission_versions, proposals, proposal_files,
                   ratings, users, clock, reqs, rate_reqs, static_submissions>>

\* crud.py 289-297: create_issue loads the project in its own session and
\* returns None unless it is SUBMITTED.
issue_begin(w, project_id, creator_id) ==
    /\ life_reqs[w].pc = "idle"
    /\ IF may_create_issue(project_id)
       THEN /\ life_reqs' = [life_reqs EXCEPT ![w] =
                                [pc |-> "issue_checked",
                                 project_id |-> project_id,
                                 user_id |-> creator_id]]
            /\ UNCHANGED last
       ELSE /\ last' = Response("create_issue", project_id, 400)
            /\ UNCHANGED life_reqs
    /\ UNCHANGED <<tables, clock, reqs, rate_reqs, static_submissions>>

\* crud.py 299-308: the issue row is inserted OPEN and committed.
issue_commit(w) ==
    /\ life_reqs[w].pc = "issue_checked"
    /\ issues' = crud_create_issue(life_reqs[w].project_id, life_reqs[w].user_id)
    /\ last' = Response("create_issue", life_reqs[w].project_id, 200)
    /\ life_reqs' = [life_reqs EXCEPT ![w] = LifeIdle]
    /\ UNCHANGED <<projects, submission_versions, proposals, proposal_files,
                   ratings, users, was_rejected, clock, reqs, rate_reqs,
                   static_submissions>>

IssuesInFlight ==
    Cardinality({w \in Workers : life_reqs[w].pc = "issue_checked"})

\* The lifecycle of one project through the guarded transitions: every
\* handler that writes projects, issues or submission_versions, except the
\* field patch.  The table sizes are capped.
NextGuarded ==
    \/ \E c \in ClientIds :
          Len(projects) + 1 \in ProjectIds /\ route_create_project(c, NULL)
    \/ \E p \in ProjectIds, c \in ContractorIds : route_select_contractor(p, c)
    \/ \E p \in ProjectIds, f \in Files, u \in NoLink :
          Len(submission_versions) < MaxVersions /\ route_submit_project(p, f, u)
    \/ \E p \in ProjectIds : route_accept_project(p)
    \/ \E p \in ProjectIds, r \in Reasons : route_reject_project(p, r)
    \/ \E p \in ProjectIds, u \in ClientIds :
          Len(issues) < MaxIssues /\ route_create_issue(p, u)
    \/ \E i \in IssueIds, u \in ResolverIds : route_resolve_issue(i, u)
    \/ Tick

SpecGuarded == Init /\ [][NextGuarded]_vars

\* The same with the field patch of PUT /projects/{project_id}.
Next ==
    \/ NextGuarded
    \/ \E p \in ProjectIds, patch \in StatusPatches :
          route_update_project(p, patch)

Spec == Init /\ [][Next]_vars

\* The two ledgers over several parents: submit/reject/resubmit cycles on
\* each project, proposals with and without an attachment.  These are the
\* handlers that write a ledger row or move a project between the statuses
\* submit is served in.
NextLedger ==
    \/ \E c \in ClientIds :
          Len(projects) + 1 \in ParentIds /\ route_create_project(c, NULL)
    \/ \E p \in ParentIds : route_select_contractor(p, 2)
    \/ \E p \in ParentIds, f \in Files :
          Len(submission_versions) < MaxLedger /\ route_submit_project(p, f, NONE)
    \/ \E p \in ParentIds : route_reject_project(p, "incomplete")
    \/ \E p \in ParentIds, t \in ContentTypes :
          Len(proposals) < MaxProposals /\ route_create_proposal(p, 2, t)

SpecLedger == Init /\ [][NextLedger]_vars

\* Two workers serving submit requests statement by statement, next to the
\* requests that bring a project to IN_PROGRESS and REJECTED.
NextConc ==
    \/ \E c \in ClientIds :
          Len(projects) + 1 \in ProjectIds /\ route_create_project(c, NULL)
    \/ \E p \in ProjectIds : route_select_contractor(p, 2)
    \/ \E p \in ProjectIds : route_reject_project(p, "incomplete")
    \/ \E w \in Workers, p \in ProjectIds, f \in Files, u \in FormUrls :
          /\ Len(submission_versions) + InFlight < MaxLedger
          /\ submit_begin(w, p, f, u)
    \/ \E w \in Workers : submit_read(w)
    \/ \E w \in Workers : submit_commit(w)

SpecConc == Init /\ [][NextConc]_vars

\* The same requests, any of which may fail at any point before its commit.
NextAbort ==
    \/ NextConc
    \/ \E p \in ProjectIds, f \in Files : submit_write_error(p, f)
    \/ \E w \in Workers : submit_abort(w)

SpecAbort == Init /\ [][NextAbort]_vars

\* The bidding window: projects with and without a deadline, patched and
\* bid on while the clock advances.
NextBid ==
    \/ \E c \in ClientIds, d \in Deadlines :
          Len(projects) + 1 \in ProjectIds /\ route_create_project(c, d)
    \/ \E p \in ProjectIds, patch \in AllPatches : route_update_project(p, patch)
    \/ \E p \in ProjectIds, t \in ContentTypes :
          Len(proposals) < MaxProposals /\ route_create_proposal(p, 2, t)
    \/ Tick

SpecBid == InitBid /\ [][NextBid]_vars

\* The same requests and the listing of the open projects.
NextListing ==
    \/ NextBid
    \/ route_get_all_projects(DefaultSkip, DefaultLimit)

SpecListing == InitBid /\ [][NextListing]_vars

\* Field patches over the lifecycle: one project with or without a deadline
\* goes through the transitions, issues are reported on it, and the client
\* patches its status, its deadline, both or nothing at any point.
NextPatch ==
    \/ \E c \in ClientIds, d \in Deadlines :
          Len(projects) + 1 \in ProjectIds /\ route_create_project(c, d)
    \/ \E p \in ProjectIds : route_select_contractor(p, 2)
    \/ \E p \in ProjectIds :
          Len(submission_versions) < MaxVersions
             /\ route_submit_project(p, "fileA", NONE)
    \/ \E p \in ProjectIds : route_accept_project(p)
    \/ \E p \in ProjectIds : route_reject_project(p, "incomplete")
    \/ \E p \in ProjectIds :
          Len(issues) < MaxIssues /\ route_create_issue(p, 1)
    \/ \E p \in ProjectIds, patch \in AllPatches : route_update_project(p, patch)

SpecPatch == Init /\ [][NextPatch]_vars

\* Ratings: a project is brought to COMPLETED, possibly more than once with
\* another contractor, and its users rate each other, one request at a
\* time.
NextRating ==
    \/ \E c \in ClientIds :
          Len(projects) + 1 \in ProjectIds /\ route_create_project(c, NULL)
    \/ \E p \in ProjectIds, c \in ContractorIds : route_select_contractor(p, c)
    \/ \E p \in ProjectIds :
          Len(submission_versions) < MaxVersions
             /\ route_submit_project(p, "fileA", NONE)
    \/ \E p \in ProjectIds : route_accept_project(p)
    \/ \E p \in ProjectIds, a \in RaterIds, b \in RaterIds, x \in PlainBodies :
          Len(ratings) < MaxRatings /\ route_rate_user(p, a, b, x)

SpecRating == Init /\ [][NextRating]_vars

\* Reviews: two projects of one client and one contractor are taken along
\* the lifecycle; the two rate each other with any body, change their
\* ratings, and the averages are read.
NextReview ==
    \/ \E c \in ClientIds :
          Len(projects) + 1 \in ParentIds /\ route_create_project(c, NULL)
    \/ \E p \in DOMAIN projects :
          projects[p].status = OPEN /\ route_select_contractor(p, 2)
    \/ \E p \in DOMAIN projects :
          /\ projects[p].status = IN_PROGRESS
          /\ Len(submission_versions) < MaxVersions
          /\ route_submit_project(p, "fileA", NONE)
    \/ \E p \in DOMAIN projects :
          projects[p].status = SUBMITTED /\ route_accept_project(p)
    \/ \E p \in ParentIds, a \in PartyIds, b \in RaterIds, x \in RatingBodies :
          Len(ratings) < MaxReviews /\ route_rate_user(p, a, b, x)
    \/ \E p \in ParentIds, a \in PartyIds, b \in RaterIds, x \in RatingBodies :
          route_update_existing_rating(p, a, b, x)
    \/ \E u \in RaterIds : route_get_user_average_rating(u)

SpecReview == Init /\ [][NextReview]_vars

\* Two workers serving rate requests statement by statement, on a project
\* taken along the lifecycle: the contractor is selected while the project
\* is OPEN and the project accepted while it is SUBMITTED.
NextRateConc ==
    \/ \E c \in ClientIds :
          Len(projects) + 1 \in ProjectIds /\ route_create_project(c, NULL)
    \/ \E p \in DOMAIN projects, c \in ContractorIds :
          projects[p].status = OPEN /\ route_select_contractor(p, c)
    \/ \E p \in ProjectIds :
          Len(submission_versions) < MaxVersions
             /\ route_submit_project(p, "fileA", NONE)
    \/ \E p \in DOMAIN projects :
          projects[p].status = SUBMITTED /\ route_accept_project(p)
    \/ \E w \in Workers, p \in ProjectIds, a \in RaterIds, b \in RaterIds,
          x \in PlainBodies :
          /\ Len(ratings) + RatesInFlight < MaxRatings
          /\ rate_begin(w, p, a, b, x)
    \/ \E w \in Workers : rate_commit(w)

SpecRateConc == Init /\ [][NextRateConc]_vars

\* Acceptance against issue reports: the client accepts a submitted project
\* on one worker while an issue is reported on another.  The other requests
\* are served one at a time and only in the statuses the lifecycle names
\* for them.
NextLifeConc ==
    \/ \E c \in ClientIds :
          Len(projects) + 1 \in ProjectIds /\ route_create_project(c, NULL)
    \/ \E p \in DOMAIN projects :
          projects[p].status = OPEN /\ route_select_contractor(p, 2)
    \/ \E p \in ProjectIds, f \in Files :
          Len(submission_versions) < MaxVersions
             /\ route_submit_project(p, f, "urlB")
    \/ \E p \in DOMAIN projects :
          projects[p].status = SUBMITTED /\ route_reject_project(p, "incomplete")
    \/ \E i \in IssueIds, u \in ResolverIds : route_resolve_issue(i, u)
    \/ \E w \in Workers, p \in DOMAIN projects :
          projects[p].status = SUBMITTED /\ accept_begin(w, p)
    \/ \E w \in Workers : accept_commit(w)
    \/ \E w \in Workers, p \in ProjectIds, u \in ResolverIds :
          /\ Len(issues) + IssuesInFlight < MaxIssues
          /\ issue_begin(w, p, u)
    \/ \E w \in Workers : issue_commit(w)
    \/ Tick

SpecLifeConc == Init /\ [][NextLifeConc]_vars

\* Registration and login of users.
NextAuth ==
    \/ \E u \in Usernames, e \in Emails, pw \in Passwords, r \in UserRoles,
          salt \in Salts :
          Len(users) < MaxUsers /\ route_register(u, e, pw, r, salt)
    \/ \E u \in Usernames, pw \in Passwords : route_login(u, pw)

SpecAuth == Init /\ [][NextAuth]_vars

\* ====================================================== claims: lifecycle
OpenIssuesOf(p) ==
    {i \in DOMAIN issues :
        issues[i].project_id = p /\ issues[i].status = ISSUE_OPEN}

ResolvedIssuesOf(p) ==
    {i \in DOMAIN issues :
        issues[i].project_id = p /\ issues[i].status = ISSUE_RESOLVED}

\* The step is a request of handler op on project p.
Served(op, p) == last'.op = op /\ last'.id = p

SameStatus(p) ==
    /\ projects'[p].status = projects[p].status
    /\ projects'[p].completed_at = projects[p].completed_at

\* C1: accept on a project with at least one OPEN issue fails and leaves
\* status and completed_at as they were, whatever the number of RESOLVED
\* issues; with no OPEN issue accept sets the status to COMPLETED.
C1_AcceptGuard ==
    [][\A p \in ProjectIds :
          (Served("accept_project", p) /\ ProjectExists(p)) =>
             IF OpenIssuesOf(p) # {}
             THEN last'.code = 400 /\ SameStatus(p)
             ELSE last'.code = 200 /\ projects'[p].status = COMPLETED]_vars

\* An accept was refused on a SUBMITTED project holding one OPEN and one
\* RESOLVED issue.
C1_Witness ==
    /\ last.op = "accept_project" /\ last.code = 400
    /\ ProjectExists(last.id)
    /\ projects[last.id].status = SUBMITTED
    /\ OpenIssuesOf(last.id) # {}
    /\ ResolvedIssuesOf(last.id) # {}

\* C2: accept completes a project only from SUBMITTED; in any other status
\* it fails and leaves status and completed_at unchanged.
C2_AcceptOnlyFromSubmitted ==
    [][\A p \in ProjectIds :
          (/\ Served("accept_project", p)
           /\ ProjectExists(p)
           /\ projects[p].status # SUBMITTED) =>
             last'.code # 200 /\ SameStatus(p)]_vars

\* C3: submit succeeds only from IN_PROGRESS or REJECTED, and then sets the
\* status to SUBMITTED and appends exactly one version row of the project;
\* a failed submit changes neither the projects nor the versions.
C3_SubmitGuard ==
    [][\A p \in ProjectIds :
          (Served("submit_project", p) /\ ProjectExists(p)) =>
             IF last'.code = 200
             THEN /\ projects[p].status \in {IN_PROGRESS, REJECTED}
                  /\ projects'[p].status = SUBMITTED
                  /\ Len(submission_versions') = Len(submission_versions) + 1
                  /\ SubSeq(submission_versions', 1, Len(submission_versions))
                        = submission_versions
                  /\ submission_versions'[Len(submission_versions')].project_id = p
             ELSE /\ projects' = projects
                  /\ submission_versions' = submission_versions]_vars

\* A resubmission after a rejection was accepted as the second version.
C3_Witness ==
    /\ last.op = "submit_project" /\ last.code = 200
    /\ projects[last.id].status = SUBMITTED
    /\ projects[last.id].rejection_reason # NONE
    /\ Len(submission_versions) = 2

\* C4: reject succeeds only from SUBMITTED; in any other status it fails and
\* leaves status and rejection_reason unchanged.
C4_RejectOnlyFromSubmitted ==
    [][\A p \in ProjectIds :
          (/\ Served("reject_project", p)
           /\ ProjectExists(p)
           /\ projects[p].status # SUBMITTED) =>
             /\ last'.code # 200
             /\ projects'[p].status = projects[p].status
             /\ projects'[p].rejection_reason = projects[p].rejection_reason]_vars

\* C5: selectContractor succeeds only from OPEN; in any other status it
\* fails and leaves status and contractor reference unchanged.
C5_SelectOnlyFromOpen ==
    [][\A p \in ProjectIds :
          (/\ Served("select_contractor", p)
           /\ ProjectExists(p)
           /\ projects[p].status # OPEN) =>
             /\ last'.code # 200
             /\ projects'[p].status = projects[p].status
             /\ projects'[p].contractor_id = projects[p].contractor_id]_vars

\* C6: COMPLETED is terminal: no request changes the status of a COMPLETED
\* project.
C6_CompletedTerminal ==
    [][\A p \in DOMAIN projects :
          projects[p].status = COMPLETED => projects'[p].status = COMPLETED]_vars

\* C7: once a project's contractor reference is set, no request changes it.
C7_ContractorSetOnce ==
    [][\A p \in DOMAIN projects :
          projects[p].contractor_id # NULL =>
             projects'[p].contractor_id = projects[p].contractor_id]_vars

\* ======================================================= claims: ledgers
\* The rows of one parent, in the order they were written.
RowsOf(rows, key, parent) ==
    LET OfParent(r) == r[key] = parent IN SelectSeq(rows, OfParent)

Numbered(rows) == \A k \in 1..Len(rows) : rows[k].version = k

\* C8: served one request at a time, the k-th version row written for a
\* parent (a project's submissions, a proposal's files) has version k: the
\* versions of a parent are 1..N without gap or duplicate.
C8_VersionsGapFree ==
    /\ \A p \in DOMAIN projects :
          Numbered(RowsOf(submission_versions, "project_id", p))
    /\ \A q \in DOMAIN proposals :
          Numbered(RowsOf(proposal_files, "proposal_id", q))

\* One project was submitted, rejected and resubmitted, another project was
\* submitted once, and a proposal carries a file.
C8_Witness ==
    /\ \E p \in DOMAIN projects :
          /\ Len(RowsOf(submission_versions, "project_id", p)) = 2
          /\ projects[p].rejection_reason # NONE
          /\ projects[p].status = SUBMITTED
    /\ \E p \in DOMAIN projects :
          Len(RowsOf(submission_versions, "project_id", p)) = 1
    /\ Len(proposal_files) > 0

\* C9: however two submit requests interleave, the version rows of a project
\* carry the numbers 1..N, each once.
C9_ConcurrentVersionsUnique ==
    \A p \in DOMAIN projects :
       LET mine == {i \in DOMAIN submission_versions :
                       submission_versions[i].project_id = p}
       IN /\ \A i, j \in mine :
                i # j => submission_versions[i].version
                            # submission_versions[j].version
          /\ {submission_versions[i].version : i \in mine}
                = 1..Cardinality(mine)

\* ================================================= claims: bidding window
\* C10: is_project_open_for_bidding(project) is true iff the status is OPEN
\* and the deadline is unset or not before the current (local) time; at
\* now = deadline the project is still open.
C10_BiddingWindow ==
    \A p \in DOMAIN projects :
       is_project_open_for_bidding(projects[p])
          <=> /\ projects[p].status = OPEN
              /\ \/ projects[p].deadline = NULL
                 \/ localnow <= projects[p].deadline

\* The bidding window as the contract words it: status OPEN and the deadline
\* unset or not yet passed on the server's clock.
OpenForBidding(p) ==
    /\ projects[p].status = OPEN
    /\ \/ projects[p].deadline = NULL
       \/ localnow <= projects[p].deadline

\* C11: createProposal adds a proposal row only while the project is open
\* for bidding at the time of the call; on a project that is not open (the
\* deadline has passed, the status is no longer OPEN) it fails with 400 and
\* leaves the proposals and their files unchanged.
C11_ProposalOnlyWhileOpen ==
    [][\A p \in ProjectIds :
          (Served("create_proposal", p) /\ ProjectExists(p)) =>
             /\ proposals' # proposals =>
                   /\ OpenForBidding(p)
                   /\ Len(proposals') = Len(proposals) + 1
                   /\ SubSeq(proposals', 1, Len(proposals)) = proposals
                   /\ proposals'[Len(proposals')].project_id = p
             /\ ~OpenForBidding(p) =>
                   /\ last'.code = 400
                   /\ proposals' = proposals
                   /\ proposal_files' = proposal_files]_vars

\* A proposal was made while the project was open; then the deadline passed
\* and a further proposal on the still OPEN project was refused.
C11_Witness ==
    /\ last.op = "create_proposal" /\ last.code = 400
    /\ ProjectExists(last.id)
    /\ projects[last.id].status = OPEN
    /\ projects[last.id].deadline # NULL
    /\ localnow > projects[last.id].deadline
    /\ \E q \in DOMAIN proposals : proposals[q].project_id = last.id

\* ========================================================= claims: issues
\* C12: createIssue appends an issue, with status OPEN, only when the
\* project exists and is SUBMITTED; for a missing project or any other
\* status it returns nothing (400) and the issues are unchanged.
C12_CreateIssueGuard ==
    [][\A p \in ProjectIds :
          Served("create_issue", p) =>
             IF ProjectExists(p) /\ projects[p].status = SUBMITTED
             THEN /\ last'.code = 200
                  /\ Len(issues') = Len(issues) + 1
                  /\ SubSeq(issues', 1, Len(issues)) = issues
                  /\ issues'[Len(issues')].project_id = p
                  /\ issues'[Len(issues')].status = ISSUE_OPEN
             ELSE /\ last'.code # 200
                  /\ issues' = issues]_vars

\* An issue was created while the project was SUBMITTED, and a later
\* createIssue on the project, no longer SUBMITTED, was refused.
C12_Witness ==
    /\ last.op = "create_issue" /\ last.code = 400
    /\ ProjectExists(last.id)
    /\ projects[last.id].status # SUBMITTED
    /\ \E i \in DOMAIN issues :
          issues[i].project_id = last.id /\ issues[i].status = ISSUE_OPEN

\* C13: resolveIssue(issue, resolver) sets the issue RESOLVED and stamps
\* resolved_at only when the resolver is the client of the issue's project;
\* for any other resolver it fails and leaves status and resolved_at as
\* they were.
C13_ResolveOnlyByClient ==
    [][\A i \in DOMAIN issues :
          Served("resolve_issue", i) =>
             IF last'.args[1] = projects[issues[i].project_id].client_id
             THEN /\ last'.code = 200
                  /\ issues'[i].status = ISSUE_RESOLVED
                  /\ issues'[i].resolved_at = now
                  /\ issues'[i].resolved_at # NULL
             ELSE /\ last'.code # 200
                  /\ issues'[i].status = issues[i].status
                  /\ issues'[i].resolved_at = issues[i].resolved_at]_vars

\* The client resolved one issue; a resolve of another, OPEN issue by a user
\* who is not the client was refused and the issue is still OPEN.
C13_Witness ==
    /\ last.op = "resolve_issue" /\ last.code = 400
    /\ IssueExists(last.id)
    /\ last.args[1] # projects[issues[last.id].project_id].client_id
    /\ issues[last.id].status = ISSUE_OPEN
    /\ issues[last.id].resolved_at = NULL
    /\ \E i \in DOMAIN issues :
          issues[i].status = ISSUE_RESOLVED /\ issues[i].resolved_at # NULL

\* ====================================================== claims: scenarios
\* C16: on a SUBMITTED project, a created issue leaves the status SUBMITTED;
\* accept fails while an issue of the project is OPEN; and accept called
\* right after the client resolved the last OPEN issue succeeds and sets
\* COMPLETED.
C16_IssueBlocksAccept ==
    [][\A p \in DOMAIN projects :
          projects[p].status = SUBMITTED =>
             /\ (Served("create_issue", p) /\ last'.code = 200) =>
                   /\ Len(issues') = Len(issues) + 1
                   /\ projects'[p].status = SUBMITTED
             /\ (Served("accept_project", p) /\ OpenIssuesOf(p) # {}) =>
                   /\ last'.code # 200
                   /\ projects'[p].status = SUBMITTED
             /\ (/\ Served("accept_project", p)
                 /\ last.op = "resolve_issue" /\ last.code = 200
                 /\ issues[last.id].project_id = p
                 /\ \A i \in DOMAIN issues :
                       (issues[i].project_id = p /\ i # last.id) =>
                          issues[i].status # ISSUE_OPEN) =>
                   /\ last'.code = 200
                   /\ projects'[p].status = COMPLETED]_vars

\* A project was accepted at the instant its last issue was resolved.
C16_Witness ==
    /\ last.op = "accept_project" /\ last.code = 200
    /\ projects[last.id].status = COMPLETED
    /\ OpenIssuesOf(last.id) = {}
    /\ \E i \in ResolvedIssuesOf(last.id) :
          issues[i].resolved_at = projects[last.id].completed_at

VersionsOf(p) == RowsOf(submission_versions, "project_id", p)

IssuesOf(p) == {i \in DOMAIN issues : issues[i].project_id = p}

\* C17: each step of create, selectContractor, submit, reject, submit,
\* accept takes the project to the next status of the scenario: OPEN,
\* IN_PROGRESS, SUBMITTED with version 1, REJECTED, SUBMITTED with
\* version 2, and COMPLETED with completed_at set.
C17_RejectResubmitAccept ==
    [][\A p \in ProjectIds :
          /\ Served("create_project", p) =>
                /\ projects'[p].status = OPEN
                /\ projects'[p].completed_at = NULL
          /\ ProjectExists(p) =>
                /\ (Served("select_contractor", p) /\ projects[p].status = OPEN) =>
                      /\ last'.code = 200
                      /\ projects'[p].status = IN_PROGRESS
                /\ (/\ Served("submit_project", p) /\ last'.code = 200
                    /\ projects[p].status = IN_PROGRESS
                    /\ Len(VersionsOf(p)) = 0) =>
                      /\ projects'[p].status = SUBMITTED
                      /\ Len(VersionsOf(p)') = 1
                      /\ VersionsOf(p)'[1].version = 1
                /\ (Served("reject_project", p) /\ projects[p].status = SUBMITTED) =>
                      /\ last'.code = 200
                      /\ projects'[p].status = REJECTED
                /\ (/\ Served("submit_project", p) /\ last'.code = 200
                    /\ projects[p].status = REJECTED
                    /\ Len(VersionsOf(p)) = 1) =>
                      /\ projects'[p].status = SUBMITTED
                      /\ Len(VersionsOf(p)') = 2
                      /\ VersionsOf(p)'[2].version = 2
                /\ (/\ Served("accept_project", p)
                    /\ projects[p].status = SUBMITTED
                    /\ IssuesOf(p) = {}) =>
                      /\ last'.code = 200
                      /\ projects'[p].status = COMPLETED
                      /\ projects'[p].completed_at = now
                      /\ projects'[p].completed_at # NULL]_vars

\* The end of the scenario: a project with a contractor, a rejection, the
\* versions 1 and 2 and no issue was accepted.
C17_Witness ==
    /\ last.op = "accept_project" /\ last.code = 200
    /\ projects[last.id].status = COMPLETED
    /\ projects[last.id].completed_at # NULL
    /\ projects[last.id].contractor_id # NULL
    /\ projects[last.id].rejection_reason # NONE
    /\ Len(VersionsOf(last.id)) = 2
    /\ VersionsOf(last.id)[1].version = 1
    /\ VersionsOf(last.id)[2].version = 2
    /\ IssuesOf(last.id) = {}

\* ======================================================= claims: statuses
\* C18 as stated: no project is ever in status DRAFT.
C18_DraftUnreachable ==
    \A p \in DOMAIN projects : projects[p].status # DRAFT

\* C18: a project is created with status OPEN, and a project that is not
\* in DRAFT enters DRAFT only by a served update whose body sets status.
C18_DraftOnlyByUpdate ==
    [][\A p \in DOMAIN projects' :
          IF p \notin DOMAIN projects
          THEN projects'[p].status = OPEN
          ELSE (projects[p].status # DRAFT /\ projects'[p].status = DRAFT) =>
                  /\ Served("update_project", p)
                  /\ last'.code = 200]_vars

\* An update put a project, created OPEN and since selected a contractor
\* for, into DRAFT.
C18_Witness ==
    /\ last.op = "update_project" /\ last.code = 200
    /\ projects[last.id].status = DRAFT
    /\ projects[last.id].contractor_id # NULL

\* C19 as stated: rejection_reason is non-null exactly for the projects
\* whose status has been REJECTED at least once.
C19_ReasonIffRejected ==
    \A p \in DOMAIN projects :
       projects[p].rejection_reason # NONE <=> p \in was_rejected

\* C19: a non-null rejection_reason belongs to a project whose status has
\* been REJECTED, and stays non-null; a served reject sets the status
\* REJECTED together with a non-null reason, and a status that becomes
\* REJECTED without a served reject was set by update.
C19_ReasonSinceRejected ==
    [][\A p \in DOMAIN projects :
          /\ projects'[p].rejection_reason # NONE => p \in was_rejected'
          /\ projects[p].rejection_reason # NONE =>
                projects'[p].rejection_reason # NONE
          /\ (Served("reject_project", p) /\ last'.code = 200) =>
                /\ projects'[p].status = REJECTED
                /\ projects'[p].rejection_reason # NONE
          /\ (projects[p].status # REJECTED /\ projects'[p].status = REJECTED) =>
                \/ Served("reject_project", p)
                \/ Served("update_project", p)]_vars

\* A rejected project was resubmitted and still carries its reason.
C19_Witness ==
    /\ last.op = "submit_project" /\ last.code = 200
    /\ projects[last.id].status = SUBMITTED
    /\ projects[last.id].rejection_reason # NONE
    /\ last.id \in was_rejected

\* ======================================================== claims: ratings
RatingsFor(p, rater, rated) ==
    {i \in DOMAIN ratings :
        /\ ratings[i].project_id = p
        /\ ratings[i].rater_id = rater
        /\ ratings[i].rated_user_id = rated}

\* The rater is the client or the contractor of the COMPLETED project p, the
\* rated user is the other of the two, and the rater has not rated them.
Eligible(p, rater, rated) ==
    /\ ProjectExists(p)
    /\ projects[p].status = COMPLETED
    /\ \/ rater = projects[p].client_id /\ rated = projects[p].contractor_id
       \/ rater = projects[p].contractor_id /\ rated = projects[p].client_id
    /\ rated # rater
    /\ RatingsFor(p, rater, rated) = {}

\* C14: served one at a time, submitRating appends a rating only for an
\* eligible (project, rater, rated); in every other case it fails and the
\* ratings are unchanged, so a second rating in the same direction fails.
C14_RatingEligibility ==
    [][\A p \in ProjectIds :
          Served("rate_user", p) =>
             LET rater == last'.args[1]
                 rated == last'.args[2]
             IN IF Eligible(p, rater, rated)
                THEN /\ last'.code = 200
                     /\ Len(ratings') = Len(ratings) + 1
                     /\ SubSeq(ratings', 1, Len(ratings)) = ratings
                     /\ ratings'[Len(ratings')].project_id = p
                     /\ ratings'[Len(ratings')].rater_id = rater
                     /\ ratings'[Len(ratings')].rated_user_id = rated
                ELSE /\ last'.code # 200
                     /\ ratings' = ratings]_vars

\* Client and contractor of a COMPLETED project have rated each other, and
\* a second rating in a direction already rated was refused.
C14_Witness ==
    /\ last.op = "rate_user" /\ last.code = 409
    /\ projects[last.id].status = COMPLETED
    /\ Cardinality(RatingsFor(last.id, last.args[1], last.args[2])) = 1
    /\ Cardinality(RatingsFor(last.id, last.args[2], last.args[1])) = 1

\* C15: however rate requests interleave, there is at most one rating per
\* (project, rater, rated_user).
C15_OneRatingPerTriple ==
    \A i, j \in DOMAIN ratings :
       (/\ ratings[i].project_id = ratings[j].project_id
        /\ ratings[i].rater_id = ratings[j].rater_id
        /\ ratings[i].rated_user_id = ratings[j].rated_user_id) => i = j

\* ========================================================== claims: users
UsersNamed(rows, username) ==
    {i \in DOMAIN rows : rows[i].username = username}

\* C20: createUser with a username that is already registered fails (400)
\* and leaves the users unchanged, and after every registration no two
\* users share a username.
C20_UsernameUnique ==
    [][last'.op = "register" =>
          /\ UsersNamed(users, last'.args[1]) # {} =>
                /\ last'.code = 400
                /\ users' = users
          /\ \A u \in Usernames : Cardinality(UsersNamed(users', u)) <= 1]_vars

\* Two users are registered and a third registration under the username of
\* one of them was refused.
C20_Witness ==
    /\ last.op = "register" /\ last.code = 400
    /\ Len(users) = 2
    /\ users[1].username # users[2].username
    /\ Cardinality(UsersNamed(users, last.args[1])) = 1

\* The password a user registered with.
PasswordOf(i) == users[i].hashed_password[3]

\* C21: a login under an unknown username and a login under a known
\* username with a password that is not the user's receive the same
\* response: the same status, the same detail, no user.
C21_SameFailure ==
    \A u1, u2 \in Usernames, pw1, pw2 \in Passwords :
       (/\ UsersNamed(users, u1) = {}
        /\ \E i \in UsersNamed(users, u2) : PasswordOf(i) # pw2) =>
          login_response(u1, pw1) = login_response(u2, pw2)

\* A login of a registered user with a wrong password was refused, while
\* another username is unknown.
C21_Witness ==
    /\ last.op = "login" /\ last.code = 401 /\ last.id = NULL
    /\ UsersNamed(users, last.args[1]) # {}
    /\ \E u \in Usernames : UsersNamed(users, u) = {}

\* ======================================================== claims: reviews
ReceivedBy(u) == {i \in DOMAIN ratings : ratings[i].rated_user_id = u}

\* Twice the mean of the non-null dimensions of rating i.
TwiceMean(i) ==
    IF ratings[i].output_quality = NULL
    THEN 2 * ratings[i].cooperation_attitude
    ELSE ratings[i].cooperation_attitude + ratings[i].output_quality

RECURSIVE TwiceMeans(_)
TwiceMeans(S) ==
    IF S = {} THEN 0
    ELSE LET i == CHOOSE x \in S : TRUE
         IN TwiceMean(i) + TwiceMeans(S \ {i})

\* C22: averageRating(user) returns the number n of ratings the user
\* received and, as a value of one decimal, the mean over those ratings of
\* each rating's mean of non-null dimensions: the result is within 0.05 of
\* TwiceMeans / (2 n); with no rating it returns 0.0 and 0.
C22_MeanOfMeans ==
    [][last'.op = "average_rating" =>
          LET n == Cardinality(ReceivedBy(last'.id))
              a == last'.args[1]
              d == 10 * TwiceMeans(ReceivedBy(last'.id)) - 2 * n * a
          IN /\ last'.args[2] = n
             /\ n = 0 => a = 0
             /\ n > 0 => (d <= n /\ -d <= n)
             /\ ratings' = ratings]_vars

\* A user with two ratings, one of mean 4.0 (one dimension) and one of mean
\* 5.0 (two dimensions), was reported the average 4.5; the mean of the three
\* raw values is 4.7.
C22_Witness ==
    /\ last.op = "average_rating"
    /\ last.args = <<45, 2>>
    /\ \E i, j \in ReceivedBy(last.id) :
          /\ ratings[i].cooperation_attitude = 4
          /\ ratings[i].output_quality = NULL
          /\ ratings[j].cooperation_attitude = 5
          /\ ratings[j].output_quality = 5

\* ====================================================== claims: not found
\* The handlers that take the id of an existing project.
ProjectOps ==
    {"update_project", "select_contractor", "submit_project", "accept_project",
     "reject_project", "create_issue"}

\* C23: a request that names a project or an issue that does not exist is
\* answered 404, not the 400 of a failed guard, and changes no table.
C23_NotFound ==
    [][(\/ last'.op \in ProjectOps /\ last'.id \notin DOMAIN projects
        \/ last'.op = "resolve_issue" /\ last'.id \notin DOMAIN issues) =>
          /\ last'.code = 404
          /\ projects' = projects
          /\ issues' = issues
          /\ submission_versions' = submission_versions]_vars

\* ================================================= claims: completion time
\* C24: completed_at is null on a new project and is written by nothing but
\* a successful accept of that project: every other step, a status patch to
\* COMPLETED included, leaves the stored value as it was.
C24_CompletedAtOnlyByAccept ==
    [][\A p \in DOMAIN projects' :
          /\ p \notin DOMAIN projects => projects'[p].completed_at = NULL
          /\ (/\ p \in DOMAIN projects
              /\ projects'[p].completed_at # projects[p].completed_at) =>
                /\ Served("accept_project", p)
                /\ last'.code = 200
                /\ projects'[p].completed_at = now]_vars

\* An accepted project has been patched back to IN_PROGRESS at a later time:
\* it still carries the time of its acceptance.
C24_Witness ==
    /\ last.op = "update_project"
    /\ last.code = 200
    /\ last.id \in DOMAIN projects
    /\ projects[last.id].status = IN_PROGRESS
    /\ projects[last.id].completed_at # NULL
    /\ projects[last.id].completed_at < now

\* ============================================ claims: accept against issues
\* C25: whatever the interleaving of an accept with a create_issue, no
\* project is COMPLETED while one of its issues is OPEN.
C25_NoCompletedWithOpenIssue ==
    \A p \in DOMAIN projects :
       projects[p].status = COMPLETED => OpenIssuesOf(p) = {}

\* ============================================== claims: newest submission
\* The version rows of project p after the step.
NewVersionsOf(p) == RowsOf(submission_versions', "project_id", p)

\* C26: after a successful submit the project's submission_file_url is the
\* locator of the project's highest-numbered version row, the one the
\* request has just stored.
C26_UrlIsNewestVersion ==
    [][\A p \in DOMAIN projects :
          (Served("submit_project", p) /\ last'.code = 200) =>
             /\ NewVersionsOf(p) # <<>>
             /\ \E k \in DOMAIN NewVersionsOf(p) :
                   /\ \A j \in DOMAIN NewVersionsOf(p) :
                         NewVersionsOf(p)[j].version <= NewVersionsOf(p)[k].version
                   /\ projects'[p].submission_file_url =
                         NewVersionsOf(p)[k].submit_url]_vars

\* ============================================== claims: submit and failure
\* C27: a submit that fails before its commit (refused by a check, the file
\* write raising, the request ending before the commit) leaves every status
\* and every version row as it was; the one commit of a successful submit
\* makes the project SUBMITTED and adds one version row of it, whose file
\* was written before that commit; and a SUBMITTED project always has a
\* version row.
C27_SubmitAtomic ==
    [][/\ (last'.op = "submit_project" /\ last'.code # 200) =>
             /\ projects' = projects
             /\ submission_versions' = submission_versions
       /\ submission_versions' # submission_versions =>
             /\ last'.op = "submit_project"
             /\ last'.code = 200
             /\ last'.id \in DOMAIN projects
             /\ projects'[last'.id].status = SUBMITTED
             /\ Len(submission_versions') = Len(submission_versions) + 1
             /\ submission_versions'[Len(submission_versions')].project_id =
                   last'.id
             /\ LET url == submission_versions'[Len(submission_versions')].submit_url
                IN url \in static_submissions \/ url = "urlB"
       /\ \A p \in DOMAIN projects :
             (projects'[p].status = SUBMITTED /\ projects[p].status # SUBMITTED) =>
                 /\ Served("submit_project", p)
                 /\ last'.code = 200
                 /\ Len(NewVersionsOf(p)) = Len(VersionsOf(p)) + 1
       /\ \A p \in DOMAIN projects' :
             projects'[p].status = SUBMITTED => NewVersionsOf(p) # <<>>]_vars

\* A submit has failed after its file was written: the file is there, the
\* project is still IN_PROGRESS and has no version row.
C27_Witness ==
    /\ last.op = "submit_project"
    /\ last.code = 500
    /\ last.id \in DOMAIN projects
    /\ static_submissions # {}
    /\ projects[last.id].status = IN_PROGRESS
    /\ VersionsOf(last.id) = <<>>

AppendOnly(before, after) ==
    /\ Len(after) \in {Len(before), Len(before) + 1}
    /\ \A i \in DOMAIN before : after[i] = before[i]

\* C29: the version ledgers are append-only: no step changes the number or
\* the locator of a stored version or removes one; a step leaves the
\* records of the submissions and of the proposal files as they are or
\* adds exactly one.
C29_LedgerAppendOnly ==
    [][/\ AppendOnly(submission_versions, submission_versions')
       /\ AppendOnly(proposal_files, proposal_files')]_vars

\* A second proposal file has been stored after a project was submitted,
\* rejected and submitted again: three earlier ledger rows are in place.
C29_Witness ==
    /\ last.op = "create_proposal"
    /\ last.code = 200
    /\ Len(proposal_files) = 2
    /\ \E p \in DOMAIN projects :
          /\ Len(VersionsOf(p)) = 2
          /\ VersionsOf(p)[1].version = 1
          /\ VersionsOf(p)[2].version = 2

\* ================================================= claims: rating update
\* C30: an update of a rating is looked up by project, rater and rated
\* user: without a rating of that triple it fails and changes nothing, and
\* with one it changes the dimensions of that rating and no other row.
C30_UpdateByTriple ==
    [][last'.op = "update_rating" =>
          LET p == last'.id
              rater == last'.args[1]
              rated == last'.args[2]
          IN /\ Len(ratings') = Len(ratings)
             /\ RatingsFor(p, rater, rated) = {} =>
                   (last'.code # 200 /\ ratings' = ratings)
             /\ \A i \in DOMAIN ratings :
                   /\ i \notin RatingsFor(p, rater, rated) =>
                         ratings'[i] = ratings[i]
                   /\ ratings'[i].project_id = ratings[i].project_id
                   /\ ratings'[i].rater_id = ratings[i].rater_id
                   /\ ratings'[i].rated_user_id = ratings[i].rated_user_id]_vars

\* ============================================ claims: refused proposals
\* C31: a create-proposal request that is answered with an error leaves the
\* proposals and the proposal files as they were; a request whose
\* attachment is not a PDF is refused without a proposal row.
C31_RefusedProposalWritesNothing ==
    [][(last'.op = "create_proposal" /\ last'.code # 200) =>
          /\ proposals' = proposals
          /\ proposal_files' = proposal_files]_vars

\* ============================================== claims: stored ratings
\* C32: in every state, the rater and the rated user of every stored rating
\* are the client and the contractor of its project, one each, and that
\* project is COMPLETED.
C32_RatingsStayValid ==
    \A i \in DOMAIN ratings :
       LET p == ratings[i].project_id
       IN /\ p \in DOMAIN projects
          /\ projects[p].status = COMPLETED
          /\ ratings[i].rater_id # ratings[i].rated_user_id
          /\ {ratings[i].rater_id, ratings[i].rated_user_id} =
                {projects[p].client_id, projects[p].contractor_id}

\* ================================================ claims: open listing
\* The ids a listing has returned.
Listed == {last.args[1][k] : k \in DOMAIN last.args[1]}

\* C33: when the open-projects listing is served, a project is in it if
\* and only if is_project_open_for_bidding holds for it at that instant.
C33_ListingAgreesWithBidding ==
    last.op = "get_all_projects" =>
       \A p \in DOMAIN projects :
          p \in Listed <=> is_project_open_for_bidding(projects[p])
====
